---- MODULE Spec2Model ----
(***************************************************************************)
(* Model of the library catalog access layer (database.py, booksearch.py,  *)
(* booklist.py): Util.escape_value, the Table statement builders, the      *)
(* Database (Catalog) life cycle, and the part of the embedded store that  *)
(* the generated statements exercise.                                      *)
(*                                                                         *)
(* A statement is the Python string the builders produce, kept as the      *)
(* sequence of the fragments that were concatenated: the fixed fragments   *)
(* of the format strings, and one fragment per character of a text value.  *)
(* The store reads that sequence again from the left (Lex, Exec): what a   *)
(* value does to a statement is decided by the store's reading of it, not  *)
(* by the builder's intention.                                             *)
(***************************************************************************)
EXTENDS Integers, Sequences, FiniteSets

(***************************************************************************)
(* Bounds of the model.                                                    *)
(***************************************************************************)
\* rows the store holds at most, all tables together (guards the inserts)
MaxRows == 2
\* tuples passed to one insert() call at most
MaxBatch == 2

(***************************************************************************)
(* Scalars: text, integer or absent (None).                                *)
(***************************************************************************)
Null == [k |-> "null", n |-> 0, s |-> <<>>]
IntV(i) == [k |-> "int", n |-> i, s |-> <<>>]
TextV(cs) == [k |-> "text", n |-> 0, s |-> cs]

Digits == <<"0", "1", "2", "3", "4", "5", "6", "7", "8", "9">>
DigitSet == {Digits[i] : i \in 1..10}
DigitVal(c) == (CHOOSE i \in 1..10 : Digits[i] = c) - 1

\* str(value) of a non-negative int: its decimal digits
RECURSIVE DecStr(_)
DecStr(i) == IF i < 10 THEN <<Digits[i + 1]>>
             ELSE DecStr(i \div 10) \o <<Digits[(i % 10) + 1]>>

\* the characters', ', '.join(parts)' puts together
RECURSIVE Join(_, _)
Join(parts, sep) ==
    IF parts = <<>> THEN <<>>
    ELSE IF Len(parts) = 1 THEN parts[1]
    ELSE parts[1] \o sep \o Join(Tail(parts), sep)

Quote == "'"

\* Util.escape_value: None -> null, str -> '<the characters, as they are>',
\* anything else -> str(value)
escape_value(value) ==
    IF value.k = "null" THEN <<"null">>
    ELSE IF value.k = "text" THEN <<Quote>> \o value.s \o <<Quote>>
    ELSE DecStr(value.n)

\* Util.escape_list
escape_list(values) == [i \in 1..Len(values) |-> escape_value(values[i])]

(***************************************************************************)
(* The three tables of the Catalog, Database.__init__.  A schema is the    *)
(* dict of the source in its insertion order: <<column, declaration>>.     *)
(***************************************************************************)
TableNames == {"book", "book_copy", "transaction"}

TableSchemas ==
    [name \in TableNames |->
        CASE name = "book" ->
                << <<"ISBN", "CHAR(13) PRIMARY KEY">>,
                   <<"title", "VARCHAR(75)">>,
                   <<"author", "VARCHAR(45)">> >>
          [] name = "book_copy" ->
                << <<"book_id", "INTEGER PRIMARY KEY AUTOINCREMENT">>,
                   <<"ISBN", "CHAR(13)">> >>
          [] name = "transaction" ->
                << <<"transaction_id", "INTEGER PRIMARY KEY AUTOINCREMENT">>,
                   <<"book_id", "INTEGER">>,
                   <<"checkout_date", "DATETIME">>,
                   <<"return_date", "DATETIME">>,
                   <<"member_id", "INTEGER">> >>]

(***************************************************************************)
(* The statements Table builds (the stmt strings of the source).           *)
(***************************************************************************)
\* a variant of initialize_stmt without IF NOT EXISTS
initialize_stmt_plain(name, schema) ==
    <<"CREATE TABLE", name, "(">>
        \o Join([i \in 1..Len(schema) |-> <<schema[i][1], schema[i][2]>>], <<", ">>)
        \o <<")">>

\* Table.initialize: CREATE TABLE IF NOT EXISTS <name> (<columns>); the back quotes
\* around the name are part of the fixed fragments on its two sides
initialize_stmt(name, schema) ==
    <<"CREATE TABLE IF NOT EXISTS", name, "(">>
        \o Join([i \in 1..Len(schema) |-> <<schema[i][1], schema[i][2]>>], <<", ">>)
        \o <<")">>

\* Table.check_exists: the table name goes between quotes as it is
check_exists_stmt(name) ==
    <<"SELECT name FROM sqlite_master WHERE type='table' AND name=",
      Quote, name, Quote>>

\* Table.insert: head + ', '.join(records)
insert_stmt(name, columns, values) ==
    <<"INSERT INTO", name, "(">>
        \o Join([i \in 1..Len(columns) |-> <<columns[i]>>], <<", ">>)
        \o <<")", "VALUES">>
        \o Join([i \in 1..Len(values) |->
                    <<"(">> \o Join(escape_list(values[i]), <<", ">>) \o <<")">>],
                <<", ">>)

\* Table.list_all
list_all_stmt(name) == <<"SELECT * FROM", name>>

\* a variant of select_where_stmt that leaves WHERE out when there is no pair
select_where_stmt_optional(name, pairs, op, sep) ==
    IF pairs = <<>> THEN <<"SELECT * FROM", name>>
    ELSE <<"SELECT * FROM", name, "WHERE">>
            \o Join([i \in 1..Len(pairs) |->
                        <<pairs[i][1], op>> \o escape_value(pairs[i][2])],
                    <<sep>>)

\* Table.select_where: pairs is the dict in its insertion order,
\* <<column, value>>; the conditions are joined by ' %s ' % sep
select_where_stmt(name, pairs, op, sep) ==
    <<"SELECT * FROM", name, "WHERE">>
        \o Join([i \in 1..Len(pairs) |->
                    <<pairs[i][1], op>> \o escape_value(pairs[i][2])],
                <<sep>>)

\* search_book: like_matcher = '%{}%'.format(search_string)
like_matcher(search_string) == TextV(<<"%">> \o search_string \o <<"%">>)

\* search_book: the pairs, operator and joiner it hands to select_where
search_book_pairs(search_string) ==
    << <<"title", like_matcher(search_string)>>,
       <<"author", like_matcher(search_string)>> >>

(***************************************************************************)
(* The store reading a statement: sqlite3.Connection.execute.  Fragments   *)
(* that are single characters of a text value are read as the store's      *)
(* tokenizer reads characters; the fixed fragments are tokens of their own *)
(* (the format strings put blanks or punctuation around each of them).     *)
(***************************************************************************)
\* the letters text values are made of in this model
Letters == {"a", "b", "A", "O", "R"}
IdChars == Letters \cup DigitSet \cup {"_"}

SymTok(w) == [t |-> "sym", w |-> w, v |-> Null]
LitTok(v) == [t |-> "lit", w |-> "", v |-> v]
BadTok == [t |-> "bad", w |-> "", v |-> Null]

\* the closing quote of the string literal whose content starts at j
\* (a doubled quote stands for one quote and does not close), 0 if none
RECURSIVE StrClose(_, _)
StrClose(stmt, j) ==
    IF j > Len(stmt) THEN 0
    ELSE IF stmt[j] = Quote
         THEN IF j + 1 <= Len(stmt) /\ stmt[j + 1] = Quote
              THEN StrClose(stmt, j + 2)
              ELSE j
         ELSE StrClose(stmt, j + 1)

\* the content of the string literal between j and its closing quote e
RECURSIVE StrContent(_, _, _)
StrContent(stmt, j, e) ==
    IF j >= e THEN <<>>
    ELSE IF stmt[j] = Quote
         THEN <<Quote>> \o StrContent(stmt, j + 2, e)
         ELSE <<stmt[j]>> \o StrContent(stmt, j + 1, e)

\* the last character of the run of identifier characters starting at i
RECURSIVE RunEnd(_, _)
RunEnd(stmt, i) ==
    IF i + 1 <= Len(stmt) /\ stmt[i + 1] \in IdChars
    THEN RunEnd(stmt, i + 1)
    ELSE i

\* the value of a run of digits
RECURSIVE DigitsVal(_)
DigitsVal(cs) ==
    IF cs = <<>> THEN 0
    ELSE 10 * DigitsVal(SubSeq(cs, 1, Len(cs) - 1)) + DigitVal(cs[Len(cs)])

AllDigits(cs) == cs # <<>> /\ \A i \in 1..Len(cs) : cs[i] \in DigitSet

\* a run of identifier characters outside a string: a number, a keyword,
\* an illegal token (digits followed by letters) or an identifier
RunTok(cs) ==
    IF AllDigits(cs) THEN LitTok(IntV(DigitsVal(cs)))
    ELSE IF cs[1] \in DigitSet THEN BadTok
    ELSE IF cs = <<"O", "R">> THEN SymTok("OR")
    ELSE [t |-> "id", w |-> "", v |-> TextV(cs)]

\* the tokens of a statement, from fragment i on; an unterminated string
\* is an illegal token
RECURSIVE LexFrom(_, _)
LexFrom(stmt, i) ==
    IF i > Len(stmt) THEN <<>>
    ELSE IF stmt[i] = Quote
    THEN LET e == StrClose(stmt, i + 1)
         IN  IF e = 0 THEN <<BadTok>>
             ELSE <<LitTok(TextV(StrContent(stmt, i + 1, e)))>> \o LexFrom(stmt, e + 1)
    ELSE IF stmt[i] \in IdChars
    THEN LET e == RunEnd(stmt, i)
         IN  <<RunTok(SubSeq(stmt, i, e))>> \o LexFrom(stmt, e + 1)
    ELSE IF stmt[i] = "null" THEN <<LitTok(Null)>> \o LexFrom(stmt, i + 1)
    ELSE <<SymTok(stmt[i])>> \o LexFrom(stmt, i + 1)

Lex(stmt) == LexFrom(stmt, 1)

(***************************************************************************)
(* The content of a store: per table whether it was created, its declared  *)
(* columns, and its rows in rowid order (the order SELECT * scans them).   *)
(***************************************************************************)
EmptyDB == [name \in TableNames |-> [exists |-> FALSE, cols |-> <<>>, rows |-> <<>>]]

\* the affinity the store derives from a column declaration; an INTEGER
\* PRIMARY KEY column is the rowid itself
Affinity(decl) ==
    CASE decl = "INTEGER PRIMARY KEY AUTOINCREMENT" -> "rowid"
      [] decl = "INTEGER" -> "integer"
      [] decl \in {"CHAR(13) PRIMARY KEY", "CHAR(13)", "VARCHAR(75)", "VARCHAR(45)"} -> "text"
      [] OTHER -> "numeric"

IsNumericAff(aff) == aff \in {"rowid", "integer", "numeric"}

\* a PRIMARY KEY that is not the rowid: unique among the values that are not null
IsUniqueDecl(decl) == decl = "CHAR(13) PRIMARY KEY"

\* the value a column of that affinity keeps for v
ApplyAffinity(aff, v) ==
    IF aff = "text" /\ v.k = "int" THEN TextV(DecStr(v.n))
    ELSE IF IsNumericAff(aff) /\ v.k = "text" /\ AllDigits(v.s) THEN IntV(DigitsVal(v.s))
    ELSE v

ToText(v) == IF v.k = "int" THEN DecStr(v.n) ELSE v.s

\* first index >= from of the fixed token w, 0 if there is none
RECURSIVE IndexOfSym(_, _, _)
IndexOfSym(toks, w, from) ==
    IF from > Len(toks) THEN 0
    ELSE IF toks[from].t = "sym" /\ toks[from].w = w THEN from
    ELSE IndexOfSym(toks, w, from + 1)

\* the pieces of toks between the occurrences of the fixed token w
RECURSIVE SplitAt(_, _)
SplitAt(toks, w) ==
    LET p == IndexOfSym(toks, w, 1)
    IN  IF p = 0 THEN <<toks>>
        ELSE <<SubSeq(toks, 1, p - 1)>> \o SplitAt(SubSeq(toks, p + 1, Len(toks)), w)

ColIndex(cols, c) == IF \E i \in 1..Len(cols) : cols[i][1] = c
                     THEN CHOOSE i \in 1..Len(cols) : cols[i][1] = c
                     ELSE 0

(***************************************************************************)
(* Expressions: OR binds weakest, then AND, then = and LIKE, then %.  A     *)
(* condition with two comparison operators does not occur.  A primary is   *)
(* a literal or a column of the table read; an identifier that names no    *)
(* column and an illegal token make the statement fail to prepare.         *)
(***************************************************************************)
CmpOps == {"=", "LIKE"}

IsCmp(tok) == tok.t = "sym" /\ tok.w \in CmpOps

PrimOk(tok, cols) ==
    \/ tok.t = "lit"
    \/ tok.t = "sym" /\ ColIndex(cols, tok.w) # 0

\* an operand: primaries with % (modulo) between them
OperandOk(toks, cols) ==
    LET ps == SplitAt(toks, "%")
    IN  \A i \in 1..Len(ps) : Len(ps[i]) = 1 /\ PrimOk(ps[i][1], cols)

\* the position of the comparison operator of a condition, 0 if it has none
CmpIndex(toks) ==
    IF \E i \in 1..Len(toks) : IsCmp(toks[i])
    THEN CHOOSE i \in 1..Len(toks) :
            IsCmp(toks[i]) /\ \A j \in 1..(i - 1) : ~IsCmp(toks[j])
    ELSE 0

\* operand, or operand op operand
ConjOk(toks, cols) ==
    LET c == CmpIndex(toks)
    IN  IF c = 0 THEN OperandOk(toks, cols)
        ELSE /\ OperandOk(SubSeq(toks, 1, c - 1), cols)
             /\ OperandOk(SubSeq(toks, c + 1, Len(toks)), cols)

ExprOk(toks, cols) ==
    LET ds == SplitAt(toks, "OR")
    IN  \A i \in 1..Len(ds) :
            LET cs == SplitAt(ds[i], "AND")
            IN  \A j \in 1..Len(cs) : ConjOk(cs[j], cols)

PrimVal(tok, cols, vals) ==
    IF tok.t = "lit" THEN tok.v ELSE vals[ColIndex(cols, tok.w)]

PrimAff(tok, cols) ==
    IF tok.t = "lit" THEN "none" ELSE Affinity(cols[ColIndex(cols, tok.w)][2])

\* the integer a text starts with (0 if it starts with none)
RECURSIVE NumPrefix(_, _)
NumPrefix(cs, acc) ==
    IF cs = <<>> \/ cs[1] \notin DigitSet THEN acc
    ELSE NumPrefix(Tail(cs), 10 * acc + DigitVal(cs[1]))

\* a value used as a condition: "T", "F" or "U" (null)
Truth(v) ==
    IF v.k = "null" THEN "U"
    ELSE IF v.k = "int" THEN (IF v.n # 0 THEN "T" ELSE "F")
    ELSE IF NumPrefix(v.s, 0) # 0 THEN "T" ELSE "F"

\* LIKE folds the case of ASCII letters
Fold(c) == CASE c = "A" -> "a" [] c = "O" -> "o" [] c = "R" -> "r" [] OTHER -> c

\* pattern pat matches text cs: % is any run of characters, _ any one
RECURSIVE Like(_, _)
Like(pat, cs) ==
    IF pat = <<>> THEN cs = <<>>
    ELSE IF pat[1] = "%" THEN Like(Tail(pat), cs) \/ (cs # <<>> /\ Like(pat, Tail(cs)))
    ELSE IF cs = <<>> THEN FALSE
    ELSE IF pat[1] = "_" THEN Like(Tail(pat), Tail(cs))
    ELSE Fold(pat[1]) = Fold(cs[1]) /\ Like(Tail(pat), Tail(cs))

\* a op b, where a and b come with the affinity of the column they were
\* read from ("none" for a literal)
CmpTruth(op, a, affA, b, affB) ==
    IF a.k = "null" \/ b.k = "null" THEN "U"
    ELSE IF op = "LIKE" THEN (IF Like(ToText(b), ToText(a)) THEN "T" ELSE "F")
    ELSE LET conv(x, own, other) ==
                 IF IsNumericAff(other) /\ ~IsNumericAff(own) THEN ApplyAffinity("numeric", x)
                 ELSE IF other = "text" /\ own = "none" THEN ApplyAffinity("text", x)
                 ELSE x
         IN  IF conv(a, affA, affB) = conv(b, affB, affA) THEN "T" ELSE "F"

\* a % b on the integers the two values start with; null on a null
\* operand or a zero divisor
ModVal(a, b) ==
    LET AsInt(v) == IF v.k = "int" THEN v.n ELSE NumPrefix(v.s, 0)
    IN  IF a.k = "null" \/ b.k = "null" \/ AsInt(b) = 0 THEN Null
        ELSE IntV(AsInt(a) % AsInt(b))

RECURSIVE ModFold(_, _, _, _)
ModFold(acc, ps, cols, vals) ==
    IF ps = <<>> THEN acc
    ELSE ModFold(ModVal(acc, PrimVal(ps[1][1], cols, vals)), Tail(ps), cols, vals)

OperandVal(toks, cols, vals) ==
    LET ps == SplitAt(toks, "%")
    IN  ModFold(PrimVal(ps[1][1], cols, vals), Tail(ps), cols, vals)

OperandAff(toks, cols) == IF Len(toks) = 1 THEN PrimAff(toks[1], cols) ELSE "none"

ConjTruth(toks, cols, vals) ==
    LET c == CmpIndex(toks)
        lhs == SubSeq(toks, 1, c - 1)
        rhs == SubSeq(toks, c + 1, Len(toks))
    IN  IF c = 0 THEN Truth(OperandVal(toks, cols, vals))
        ELSE CmpTruth(toks[c].w,
                      OperandVal(lhs, cols, vals), OperandAff(lhs, cols),
                      OperandVal(rhs, cols, vals), OperandAff(rhs, cols))

\* three-valued AND, OR over a set of truth values
And3(ts) == IF "F" \in ts THEN "F" ELSE IF "U" \in ts THEN "U" ELSE "T"
Or3(ts) == IF "T" \in ts THEN "T" ELSE IF "U" \in ts THEN "U" ELSE "F"

ExprTruth(toks, cols, vals) ==
    LET ds == SplitAt(toks, "OR")
    IN  Or3({ LET cs == SplitAt(ds[i], "AND")
              IN  And3({ConjTruth(cs[j], cols, vals) : j \in 1..Len(cs)})
              : i \in 1..Len(ds) })

\* the value of an expression: a lone operand is its own value, anything
\* else is a condition, 1, 0 or null
ExprVal(toks, cols, vals) ==
    IF \A i \in 1..Len(toks) : toks[i].t # "sym" \/ toks[i].w \notin (CmpOps \cup {"AND", "OR"})
    THEN OperandVal(toks, cols, vals)
    ELSE LET t == ExprTruth(toks, cols, vals)
         IN  IF t = "T" THEN IntV(1) ELSE IF t = "F" THEN IntV(0) ELSE Null

(***************************************************************************)
(* Statements.  Exec gives err ("none"; "prepare" when the statement is    *)
(* rejected before it runs; "step" when a row violates a constraint, which *)
(* undoes the whole statement), the store after it, the rows it returns    *)
(* and whether it is a statement that modifies rows (dml).                 *)
(***************************************************************************)
Failed(db, kind, dml) == [err |-> kind, db |-> db, rows |-> <<>>, dml |-> dml]
Done(db, rows, dml) == [err |-> "none", db |-> db, rows |-> rows, dml |-> dml]

\* CREATE TABLE [IF NOT EXISTS] name ( col decl, ... ): without IF NOT
\* EXISTS a table of that name makes the statement fail to prepare
ExecCreate(db, toks) ==
    LET name == toks[2].w
        defs == SplitAt(SubSeq(toks, 4, Len(toks) - 1), ", ")
    IN  IF \/ Len(toks) < 5
           \/ toks[3] # SymTok("(") \/ toks[Len(toks)] # SymTok(")")
           \/ \E i \in 1..Len(defs) :
                 Len(defs[i]) # 2 \/ defs[i][1].t # "sym" \/ defs[i][2].t # "sym"
        THEN Failed(db, "prepare", FALSE)
        ELSE IF db[name].exists
        THEN (IF toks[1].w = "CREATE TABLE" THEN Failed(db, "prepare", FALSE)
              ELSE Done(db, <<>>, FALSE))
        ELSE Done([db EXCEPT ![name] =
                      [exists |-> TRUE,
                       cols |-> [i \in 1..Len(defs) |-> <<defs[i][1].w, defs[i][2].w>>],
                       rows |-> <<>>]],
                  <<>>, FALSE)

\* SELECT name FROM sqlite_master WHERE type='table' AND name='...'
ExecMaster(db, toks) ==
    IF Len(toks) # 2 \/ toks[2].t # "lit" THEN Failed(db, "prepare", FALSE)
    ELSE LET hit == {name \in TableNames : db[name].exists /\ toks[2].v = TextV(<<name>>)}
         IN  IF hit = {} THEN Done(db, <<>>, FALSE)
             ELSE Done(db, << <<TextV(<<CHOOSE name \in hit : TRUE>>)>> >>, FALSE)

\* SELECT * FROM name [WHERE expr]: the rows in rowid order
ExecSelect(db, toks) ==
    LET name == toks[2].w
        tbl == db[name]
        cond == SubSeq(toks, 4, Len(toks))
        Keep(r) == ExprTruth(cond, tbl.cols, r.vals) = "T"
        hits == IF Len(toks) = 2 THEN tbl.rows ELSE SelectSeq(tbl.rows, Keep)
    IN  IF \/ ~tbl.exists
           \/ Len(toks) > 2 /\ (toks[3] # SymTok("WHERE") \/ ~ExprOk(cond, tbl.cols))
        THEN Failed(db, "prepare", FALSE)
        ELSE Done(db, [i \in 1..Len(hits) |-> hits[i].vals], FALSE)

\* the rows of a VALUES list, each a sequence of expressions;
\* not ok when it is no list of parenthesised tuples
NoParse == [ok |-> FALSE, rows |-> <<>>]

RECURSIVE ParseRows(_)
ParseRows(body) ==
    IF body = <<>> \/ body[1] # SymTok("(") THEN NoParse
    ELSE LET q == IndexOfSym(body, ")", 2)
             rest == SubSeq(body, q + 1, Len(body))
         IN  IF q = 0 THEN NoParse
             ELSE LET row == SplitAt(SubSeq(body, 2, q - 1), ", ")
                  IN  IF rest = <<>> THEN [ok |-> TRUE, rows |-> <<row>>]
                      ELSE IF rest[1] # SymTok(", ") THEN NoParse
                      ELSE LET more == ParseRows(Tail(rest))
                           IN  IF ~more.ok THEN NoParse
                               ELSE [ok |-> TRUE, rows |-> <<row>> \o more.rows]

MaxRowid(rows) == IF rows = <<>> THEN 0 ELSE rows[Len(rows)].rowid

\* rows with r put in its place in rowid order
PutRow(rows, r) ==
    LET before == {i \in 1..Len(rows) : rows[i].rowid < r.rowid}
        k == Cardinality(before)
    IN  SubSeq(rows, 1, k) \o <<r>> \o SubSeq(rows, k + 1, Len(rows))

\* one tuple of values for the columns named: the columns not named are
\* null, every value takes its column's affinity, the rowid is the value of
\* the INTEGER PRIMARY KEY column or the next one.  Not ok on a rowid that
\* is no integer (datatype mismatch) or a key already present.
InsertRow(tbl, names, given) ==
    LET raw == [i \in 1..Len(tbl.cols) |->
                   IF \E j \in 1..Len(names) : names[j] = tbl.cols[i][1]
                   THEN given[CHOOSE j \in 1..Len(names) : names[j] = tbl.cols[i][1]]
                   ELSE Null]
        vals == [i \in 1..Len(tbl.cols) |-> ApplyAffinity(Affinity(tbl.cols[i][2]), raw[i])]
        rids == {i \in 1..Len(tbl.cols) : Affinity(tbl.cols[i][2]) = "rowid"}
        ri == IF rids = {} THEN 0 ELSE CHOOSE i \in rids : TRUE
        rowid == IF ri = 0 \/ vals[ri].k # "int" THEN MaxRowid(tbl.rows) + 1 ELSE vals[ri].n
        full == IF ri = 0 THEN vals ELSE [vals EXCEPT ![ri] = IntV(rowid)]
    IN  IF \/ ri # 0 /\ vals[ri].k = "text"
           \/ \E k \in 1..Len(tbl.rows) : tbl.rows[k].rowid = rowid
           \/ \E i \in 1..Len(tbl.cols) :
                 /\ IsUniqueDecl(tbl.cols[i][2])
                 /\ full[i].k # "null"
                 /\ \E k \in 1..Len(tbl.rows) : tbl.rows[k].vals[i] = full[i]
        THEN [ok |-> FALSE, rows |-> tbl.rows]
        ELSE [ok |-> TRUE, rows |-> PutRow(tbl.rows, [rowid |-> rowid, vals |-> full])]

\* the tuples of one statement, one after the other
RECURSIVE InsertRows(_, _, _)
InsertRows(tbl, names, tuples) ==
    IF tuples = <<>> THEN [ok |-> TRUE, rows |-> tbl.rows]
    ELSE LET one == InsertRow(tbl, names, tuples[1])
         IN  IF ~one.ok THEN one
             ELSE InsertRows([tbl EXCEPT !.rows = one.rows], names, Tail(tuples))

\* a variant of ExecInsert that keeps the rows put in before the one refused
ExecInsert_partial(db, toks) ==
    LET name == toks[2].w
        tbl == db[name]
        p == IndexOfSym(toks, ")", 4)
        cols == SplitAt(SubSeq(toks, 4, p - 1), ", ")
        names == [i \in 1..Len(cols) |-> cols[i][1].w]
        parsed == ParseRows(SubSeq(toks, p + 2, Len(toks)))
    IN  IF \/ ~tbl.exists
           \/ Len(toks) < 4 \/ toks[3] # SymTok("(") \/ p = 0
           \/ \E i \in 1..Len(cols) : Len(cols[i]) # 1 \/ cols[i][1].t # "sym"
           \/ \E i \in 1..Len(cols) : ColIndex(tbl.cols, cols[i][1].w) = 0
           \/ p + 1 > Len(toks) \/ toks[p + 1] # SymTok("VALUES")
           \/ ~parsed.ok
        THEN Failed(db, "prepare", FALSE)
        ELSE IF \E i \in 1..Len(parsed.rows) :
                   \/ Len(parsed.rows[i]) # Len(cols)
                   \/ \E j \in 1..Len(parsed.rows[i]) : ~ExprOk(parsed.rows[i][j], <<>>)
        THEN Failed(db, "prepare", FALSE)
        ELSE LET tuples == [i \in 1..Len(parsed.rows) |->
                               [j \in 1..Len(parsed.rows[i]) |->
                                   ExprVal(parsed.rows[i][j], <<>>, <<>>)]]
                 res == InsertRows(tbl, names, tuples)
             IN  IF ~res.ok THEN Failed([db EXCEPT ![name].rows = res.rows], "step", TRUE)
                 ELSE Done([db EXCEPT ![name].rows = res.rows], <<>>, TRUE)

\* INSERT INTO name ( columns ) VALUES ( exprs ), ( exprs ), ...
ExecInsert(db, toks) ==
    LET name == toks[2].w
        tbl == db[name]
        p == IndexOfSym(toks, ")", 4)
        cols == SplitAt(SubSeq(toks, 4, p - 1), ", ")
        names == [i \in 1..Len(cols) |-> cols[i][1].w]
        parsed == ParseRows(SubSeq(toks, p + 2, Len(toks)))
    IN  IF \/ ~tbl.exists
           \/ Len(toks) < 4 \/ toks[3] # SymTok("(") \/ p = 0
           \/ \E i \in 1..Len(cols) : Len(cols[i]) # 1 \/ cols[i][1].t # "sym"
           \/ \E i \in 1..Len(cols) : ColIndex(tbl.cols, cols[i][1].w) = 0
           \/ p + 1 > Len(toks) \/ toks[p + 1] # SymTok("VALUES")
           \/ ~parsed.ok
        THEN Failed(db, "prepare", FALSE)
        ELSE IF \E i \in 1..Len(parsed.rows) :
                   \/ Len(parsed.rows[i]) # Len(cols)
                   \/ \E j \in 1..Len(parsed.rows[i]) : ~ExprOk(parsed.rows[i][j], <<>>)
        THEN Failed(db, "prepare", FALSE)
        ELSE LET tuples == [i \in 1..Len(parsed.rows) |->
                               [j \in 1..Len(parsed.rows[i]) |->
                                   ExprVal(parsed.rows[i][j], <<>>, <<>>)]]
                 res == InsertRows(tbl, names, tuples)
             IN  IF ~res.ok THEN Failed(db, "step", TRUE)
                 ELSE Done([db EXCEPT ![name].rows = res.rows], <<>>, TRUE)

\* the store executing the tokens of one statement
ExecTokens(db, toks) ==
        IF toks = <<>> \/ \E i \in 1..Len(toks) : toks[i].t = "bad"
        THEN Failed(db, "prepare", FALSE)
        ELSE IF toks[1] = SymTok("SELECT name FROM sqlite_master WHERE type='table' AND name=")
        THEN ExecMaster(db, toks)
        ELSE IF Len(toks) < 2 \/ toks[2].t # "sym" \/ toks[2].w \notin TableNames
        THEN Failed(db, "prepare", FALSE)
        ELSE IF toks[1].t = "sym" /\ toks[1].w \in {"CREATE TABLE IF NOT EXISTS", "CREATE TABLE"}
        THEN ExecCreate(db, toks)
        ELSE IF toks[1] = SymTok("INSERT INTO") THEN ExecInsert(db, toks)
        ELSE IF toks[1] = SymTok("SELECT * FROM") THEN ExecSelect(db, toks)
        ELSE Failed(db, "prepare", FALSE)

\* the store executing one statement
Exec(db, stmt) == ExecTokens(db, Lex(stmt))

(***************************************************************************)
(* The program state.                                                      *)
(*   fileExists  the backing file of the Catalog is on disk                *)
(*   disk        what the file holds (the committed content)               *)
(*   conn        the connection of the current Catalog: "none" before the  *)
(*               first Catalog is constructed, "open", "closed"            *)
(*   work        the content as the open connection sees it                *)
(*   inTxn       the connection has a transaction open                     *)
(*   initCalled  the Table objects of the current Catalog whose            *)
(*               initialize() has been called                              *)
(*   inserted    per table, the tuples the successful insert() calls were  *)
(*               given since the file was created, in call order           *)
(*   last        the last call: its arguments, the last statement it       *)
(*               handed to the connection, and how it ended                *)
(***************************************************************************)
VARIABLES fileExists, disk, conn, work, inTxn, initCalled, inserted, last

vars == <<fileExists, disk, conn, work, inTxn, initCalled, inserted, last>>

NoCall == [op |-> "none", t |-> "", cols |-> <<>>, vals |-> <<>>, absent |-> FALSE,
           pairs |-> <<>>, cmp |-> "", sep |-> "", sent |-> <<>>, nsent |-> 0,
           status |-> "ok", rows |-> <<>>, flag |-> FALSE]

NoInserts == [name \in TableNames |-> <<>>]

Init ==
    /\ fileExists = FALSE
    /\ disk = EmptyDB
    /\ conn = "none"
    /\ work = EmptyDB
    /\ inTxn = FALSE
    /\ initCalled = {}
    /\ inserted = NoInserts
    /\ last = NoCall

\* the connection with the store behind it
Cur == [conn |-> conn, work |-> work, disk |-> disk, inTxn |-> inTxn]

(***************************************************************************)
(* sqlite3.Connection as Database uses it.                                 *)
(***************************************************************************)
\* connection.execute(stmt): fails on a closed connection; opens a
\* transaction before a statement that modifies rows; a statement of
\* another kind outside a transaction is committed by the store itself
\* (r is what the store made of the statement)
connection_executed(c, r) ==
    IF r.err = "prepare" THEN [status |-> "StoreError", rows |-> <<>>, c |-> c]
    ELSE IF r.err = "step"
    THEN [status |-> "StoreError", rows |-> <<>>,
          c |-> [c EXCEPT !.work = r.db, !.inTxn = TRUE]]
    ELSE IF r.dml
    THEN [status |-> "ok", rows |-> r.rows,
          c |-> [c EXCEPT !.work = r.db, !.inTxn = TRUE]]
    ELSE [status |-> "ok", rows |-> r.rows,
          c |-> [c EXCEPT !.work = r.db,
                          !.disk = IF c.inTxn THEN c.disk ELSE r.db]]

\* a variant of connection_execute that serves a closed connection too
connection_execute_any(c, stmt) == connection_executed(c, Exec(c.work, stmt))

connection_execute(c, stmt) ==
    IF c.conn # "open" THEN [status |-> "StoreError", rows |-> <<>>, c |-> c]
    ELSE connection_executed(c, Exec(c.work, stmt))

\* connection.commit()
connection_commit(c) == [c EXCEPT !.disk = c.work, !.inTxn = FALSE]

\* connection.close(): what was not committed is lost; closing a closed
\* connection does nothing
connection_close(c) == [c EXCEPT !.conn = "closed", !.work = EmptyDB, !.inTxn = FALSE]

\* Database.execute_sql: execute, then commit; an error of execute leaves
\* before the commit
\* (r is what connection.execute gave)
execute_sql_commit(r) ==
    IF r.status # "ok" THEN r
    ELSE [r EXCEPT !.c = connection_commit(r.c)]

\* a variant of execute_sql that leaves the commit out
execute_sql_uncommitted(c, stmt) == connection_execute(c, stmt)

execute_sql(c, stmt) == execute_sql_commit(connection_execute(c, stmt))

(***************************************************************************)
(* The inputs the calls are tried with.                                    *)
(***************************************************************************)
TxtAb == <<"a", "b">>
TxtUpper == <<"A">>
TxtOne == <<"1">>
\* two quote characters
TxtQuotes == <<Quote, Quote>>
\* the text  'OR'1
TxtOr == <<Quote, "O", "R", Quote, "1">>

BookA == <<TextV(TxtOne), TextV(TxtAb), Null>>
BookB == <<IntV(2), TextV(TxtQuotes), TextV(TxtUpper)>>

\* the shapes of insert() calls: the columns named and the tuples to pick from
InsertShapes(name) ==
    CASE name = "book" ->
            { [cols |-> <<"ISBN", "title", "author">>, pool |-> {BookA, BookB}],
              [cols |-> <<"X">>, pool |-> {<<IntV(1)>>}],
              [cols |-> <<"ISBN", "title">>, pool |-> {<<IntV(1)>>}] }
      [] name = "book_copy" ->
            { [cols |-> <<"ISBN">>, pool |-> {<<TextV(TxtOne)>>}],
              [cols |-> <<"book_id", "ISBN">>,
               pool |-> {<<IntV(2), TextV(TxtOne)>>, <<IntV(1), Null>>}] }
      [] name = "transaction" ->
            { [cols |-> <<"book_id", "checkout_date", "return_date", "member_id">>,
               pool |-> {<<IntV(1), TextV(TxtOne), Null, IntV(1)>>}] }

\* the sequences of at most n elements of S
RECURSIVE SeqsUpTo(_, _)
SeqsUpTo(S, n) ==
    IF n = 0 THEN {<<>>}
    ELSE LET shorter == SeqsUpTo(S, n - 1)
         IN  shorter \cup {Append(q, x) : q \in shorter, x \in S}

\* the select_where() calls tried: the predicate set (the dict in its
\* insertion order), the operator and the joiner
SelectCall(pairs, op, sep) == [pairs |-> pairs, op |-> op, sep |-> sep]

SelectCalls(name) ==
    CASE name = "book" ->
            { SelectCall(<<>>, "=", "AND"),
              SelectCall(<< <<"title", TextV(TxtAb)>> >>, "=", "AND"),
              SelectCall(<< <<"title", TextV(TxtOr)>> >>, "=", "AND"),
              SelectCall(<< <<"title", TextV(TxtOr)>>, <<"ISBN", IntV(2)>> >>, "=", "AND"),
              SelectCall(<< <<"title", TextV(TxtQuotes)>>, <<"ISBN", IntV(2)>> >>, "=", "AND"),
              SelectCall(<< <<"ISBN", IntV(1)>>, <<"author", TextV(<<"a">>)>> >>, "=", "OR"),
              SelectCall(<< <<"author", TextV(<<"a">>)>>, <<"title", TextV(<<"a", "%">>)>> >>,
                         "LIKE", "OR"),
              SelectCall(<< <<"title", TextV(<<"_", "b">>)>>, <<"author", Null>> >>, "LIKE", "AND") }
      [] name = "book_copy" ->
            { SelectCall(<< <<"ISBN", TextV(TxtOne)>> >>, "=", "AND"),
              SelectCall(<< <<"book_id", TextV(TxtOne)>>, <<"ISBN", Null>> >>, "=", "OR") }
      [] name = "transaction" ->
            { SelectCall(<< <<"member_id", IntV(1)>>, <<"checkout_date", IntV(1)>> >>, "=", "AND") }

\* the texts search_book() is tried with
SearchStrings == { <<"a">>, <<"b">>, <<"_">>, TxtQuotes, TxtOr }

\* the statements handed to custom_command() and execute_sql() directly
RawStatements ==
    { list_all_stmt("book"),
      initialize_stmt("book_copy", TableSchemas["book_copy"]) }

TotalRows(db) == Len(db["book"].rows) + Len(db["book_copy"].rows) + Len(db["transaction"].rows)

(***************************************************************************)
(* The operations.                                                         *)
(***************************************************************************)
\* no call is under way: the caller has taken the result of the last one
Idle == last.op = "none"

Apply(c) ==
    /\ conn' = c.conn
    /\ work' = c.work
    /\ disk' = c.disk
    /\ inTxn' = c.inTxn

Call(op, name) == [NoCall EXCEPT !.op = op, !.t = name]

Ended(call, stmt, r) ==
    [call EXCEPT !.sent = stmt, !.nsent = @ + 1, !.status = r.status, !.rows = r.rows]

\* Database.__init__(name, drop): remove the file if asked to (a file that
\* is not there is no error), connect (which creates the file), make the
\* three Table objects
Database_init(drop) ==
    LET kept == IF drop \/ ~fileExists THEN EmptyDB ELSE disk
    IN  /\ Idle
        /\ fileExists' = TRUE
        /\ disk' = kept
        /\ conn' = "open"
        /\ work' = kept
        /\ inTxn' = FALSE
        /\ initCalled' = {}
        /\ inserted' = IF drop \/ ~fileExists THEN NoInserts ELSE inserted
        /\ last' = [Call("Database", "") EXCEPT !.flag = drop]

\* the call ends with what execute_sql gave: the connection as it left it,
\* the statement sent, the rows returned or the error raised
Returns(call, stmt, r) ==
    /\ Apply(r.c)
    /\ last' = Ended(call, stmt, r)

\* Table.initialize
Table_initialize(name) ==
    LET stmt == initialize_stmt(name, TableSchemas[name])
    IN  /\ Idle
        /\ conn # "none"
        /\ Returns(Call("initialize", name), stmt, execute_sql(Cur, stmt))
        /\ initCalled' = initCalled \cup {name}
        /\ UNCHANGED <<fileExists, inserted>>

\* a variant of check_exists_result that is satisfied with no result row
check_exists_lax(r) == r.status = "ok" /\ Len(r.rows) <= 1

\* Table.check_exists: len(list(results)) == 1
check_exists_result(r) == r.status = "ok" /\ Len(r.rows) = 1

\* what check_exists() gives on connection c (false when it raises)
check_exists(c, name) == check_exists_result(execute_sql(c, check_exists_stmt(name)))

Table_check_exists(name) ==
    LET stmt == check_exists_stmt(name)
    IN  /\ Idle
        /\ conn # "none"
        /\ \E r \in {execute_sql(Cur, stmt)} :
              /\ Apply(r.c)
              /\ last' = [Ended(Call("check_exists", name), stmt, r)
                              EXCEPT !.flag = check_exists_result(r)]
        /\ UNCHANGED <<fileExists, initCalled, inserted>>

\* a variant of Table.insert without the check of values
Table_insert_unguarded(name, columns, absent, values) ==
    LET call == [Call("insert", name) EXCEPT !.cols = columns, !.vals = values,
                                             !.absent = absent]
        stmt == insert_stmt(name, columns, values)
    IN  /\ Idle
        /\ conn # "none"
        /\ TotalRows(work) + Len(values) <= MaxRows
        /\ \E r \in {execute_sql(Cur, stmt)} :
              /\ Returns(call, stmt, r)
              /\ inserted' =
                    IF r.status = "ok"
                    THEN [inserted EXCEPT ![name] =
                             @ \o [i \in 1..Len(values) |-> [cols |-> columns, vals |-> values[i]]]]
                    ELSE inserted
        /\ UNCHANGED <<fileExists, initCalled>>

\* Table.insert: values None or empty raises before anything is built
Table_insert(name, columns, absent, values) ==
    LET call == [Call("insert", name) EXCEPT !.cols = columns, !.vals = values,
                                             !.absent = absent]
        stmt == insert_stmt(name, columns, values)
    IN  /\ Idle
        /\ conn # "none"
        /\ TotalRows(work) + Len(values) <= MaxRows
        /\ IF absent \/ Len(values) < 1
           THEN /\ last' = [call EXCEPT !.status = "InvalidArgument"]
                /\ UNCHANGED <<fileExists, disk, conn, work, inTxn, initCalled, inserted>>
           ELSE \E r \in {execute_sql(Cur, stmt)} :
                /\ Returns(call, stmt, r)
                /\ inserted' =
                      IF r.status = "ok"
                      THEN [inserted EXCEPT ![name] =
                               @ \o [i \in 1..Len(values) |-> [cols |-> columns, vals |-> values[i]]]]
                      ELSE inserted
                /\ UNCHANGED <<fileExists, initCalled>>

\* Table.list_all
Table_list_all(name) ==
    LET stmt == list_all_stmt(name)
    IN  /\ Idle
        /\ conn # "none"
        /\ Returns(Call("list_all", name), stmt, execute_sql(Cur, stmt))
        /\ UNCHANGED <<fileExists, initCalled, inserted>>

\* Table.select_where
Table_select_where(name, pairs, op, sep) ==
    LET stmt == select_where_stmt(name, pairs, op, sep)
    IN  /\ Idle
        /\ conn # "none"
        /\ Returns([Call("select_where", name) EXCEPT !.pairs = pairs, !.cmp = op, !.sep = sep],
                   stmt, execute_sql(Cur, stmt))
        /\ UNCHANGED <<fileExists, initCalled, inserted>>

\* search_book: books.select_where(pairs, op="LIKE", sep="OR")
search_book(search_string) ==
    LET pairs == search_book_pairs(search_string)
        stmt == select_where_stmt("book", pairs, "LIKE", "OR")
    IN  /\ Idle
        /\ conn # "none"
        /\ Returns([Call("search_book", "book")
                        EXCEPT !.pairs = pairs, !.cmp = "LIKE", !.sep = "OR",
                               !.vals = search_string],
                   stmt, execute_sql(Cur, stmt))
        /\ UNCHANGED <<fileExists, initCalled, inserted>>

\* Table.custom_command: the statement goes through as it is
Table_custom_command(name, stmt) ==
    /\ Idle
    /\ conn # "none"
    /\ TotalRows(work) <= MaxRows
    /\ Returns(Call("custom_command", name), stmt, execute_sql(Cur, stmt))
    /\ UNCHANGED <<fileExists, initCalled, inserted>>

\* Database.execute_sql called by the application itself
Database_execute_sql(stmt) ==
    /\ Idle
    /\ conn # "none"
    /\ TotalRows(work) <= MaxRows
    /\ Returns(Call("execute_sql", ""), stmt, execute_sql(Cur, stmt))
    /\ UNCHANGED <<fileExists, initCalled, inserted>>

\* Database.initialize: books, book_copies, transactions, in that order;
\* the first one that raises ends the call
Database_initialize ==
    LET s1 == initialize_stmt("book", TableSchemas["book"])
        s2 == initialize_stmt("book_copy", TableSchemas["book_copy"])
        s3 == initialize_stmt("transaction", TableSchemas["transaction"])
        call == Call("Database.initialize", "")
    IN  /\ Idle
        /\ conn # "none"
        /\ \E r1 \in {execute_sql(Cur, s1)} :
              IF r1.status # "ok"
              THEN /\ Returns(call, s1, r1)
                   /\ initCalled' = initCalled \cup {"book"}
              ELSE \E r2 \in {execute_sql(r1.c, s2)} :
                   IF r2.status # "ok"
                   THEN /\ Returns([call EXCEPT !.nsent = 1], s2, r2)
                        /\ initCalled' = initCalled \cup {"book", "book_copy"}
                   ELSE /\ Returns([call EXCEPT !.nsent = 2], s3, execute_sql(r2.c, s3))
                        /\ initCalled' = TableNames
        /\ UNCHANGED <<fileExists, inserted>>

\* a variant of Database.drop that answers True whatever it found
Database_drop_true ==
    /\ Idle
    /\ conn # "none"
    /\ Apply([connection_close(Cur) EXCEPT !.disk = EmptyDB])
    /\ fileExists' = FALSE
    /\ inserted' = NoInserts
    /\ last' = [Call("drop", "") EXCEPT !.flag = TRUE]
    /\ UNCHANGED initCalled

\* Database.drop: close, then False if the file is not there, else remove
\* it and True
Database_drop ==
    /\ Idle
    /\ conn # "none"
    /\ Apply([connection_close(Cur) EXCEPT !.disk = EmptyDB])
    /\ fileExists' = FALSE
    /\ inserted' = NoInserts
    /\ last' = [Call("drop", "") EXCEPT !.flag = fileExists]
    /\ UNCHANGED initCalled

\* the caller takes what the call returned or raised
Return ==
    /\ ~Idle
    /\ last' = NoCall
    /\ UNCHANGED <<fileExists, disk, conn, work, inTxn, initCalled, inserted>>

Next ==
    \/ \E drop \in BOOLEAN : Database_init(drop)
    \/ Database_initialize
    \/ Database_drop
    \/ \E stmt \in RawStatements : Database_execute_sql(stmt)
    \/ \E name \in TableNames : Table_initialize(name)
    \/ \E name \in TableNames : Table_check_exists(name)
    \/ \E name \in TableNames : \E shape \in InsertShapes(name) :
          \E values \in SeqsUpTo(shape.pool, MaxBatch) :
             Table_insert(name, shape.cols, FALSE, values)
    \/ \E name \in TableNames : Table_insert(name, <<"ISBN">>, TRUE, <<>>)
    \/ \E name \in TableNames : Table_list_all(name)
    \/ \E name \in TableNames : \E call \in SelectCalls(name) :
          Table_select_where(name, call.pairs, call.op, call.sep)
    \/ \E name \in TableNames : \E stmt \in RawStatements : Table_custom_command(name, stmt)
    \/ \E s \in SearchStrings : search_book(s)
    \/ Return

Spec == Init /\ [][Next]_vars

(***************************************************************************)
(* Properties.  A state with last.op # "none" is the state in which a call *)
(* has just returned or raised; a step into such a state is the call.      *)
(***************************************************************************)

StatementOps ==
    {"execute_sql", "initialize", "check_exists", "insert", "list_all",
     "select_where", "custom_command", "search_book", "Database.initialize"}

\* C2: once drop() has closed the connection, every operation that executes
\* a statement ends with an error, the connection stays closed and the
\* backing file stays away.
C2_TerminalAfterDrop ==
    [][(conn = "closed" /\ last'.op \in StatementOps) =>
          /\ last'.status # "ok"
          /\ conn' = "closed"
          /\ ~fileExists /\ ~fileExists'
          /\ disk' = EmptyDB]_vars

\* list_all() has raised on a dropped Catalog
C2_ListAllAfterDrop ==
    conn = "closed" /\ last.op = "list_all" /\ last.status = "StoreError" /\ ~fileExists

\* C3: on an open connection initialize() never fails, check_exists() is
\* true after it, and when the table was there already its rows (those the
\* connection sees and those committed) are what they were.
C3_InitializeIdempotent ==
    [][(conn = "open" /\ last'.op = "initialize") =>
          /\ last'.status = "ok"
          /\ check_exists(Cur', last'.t)
          /\ work[last'.t].exists =>
                /\ work'[last'.t].rows = work[last'.t].rows
                /\ disk'[last'.t].rows = disk[last'.t].rows]_vars

\* initialize() has returned on a table that holds rows
C3_InitializeOverRows ==
    last.op = "initialize" /\ last.status = "ok" /\ work[last.t].rows # <<>>

\* C4 as stated: check_exists() on a Table object whose initialize() has
\* never been called returns false.
C4_FalseWhenNeverInitialized ==
    (last.op = "check_exists" /\ last.status = "ok" /\ last.t \notin initCalled)
        => ~last.flag

\* C4 amended: check_exists() returns true iff the store holds a table of
\* that name, whoever created it; right after Catalog(name, drop_existing =
\* True) it is false for the three tables, and after a Catalog.initialize()
\* that returned it is true for the three.
C4_CheckExistsReadsStore ==
    /\ (last.op = "check_exists" /\ last.status = "ok")
          => (last.flag <=> work[last.t].exists)
    /\ (last.op = "Database" /\ last.flag)
          => \A name \in TableNames : ~check_exists(Cur, name)
    /\ (last.op = "Database.initialize" /\ last.status = "ok")
          => \A name \in TableNames : check_exists(Cur, name)

\* check_exists() has returned true on a Table object never initialized
C4_TrueWithoutInitialize ==
    last.op = "check_exists" /\ last.status = "ok" /\ last.flag /\ last.t \notin initCalled

\* C5: list_all() returns one row per tuple inserted, in the order of the
\* insert() calls and of the tuples in each, and each row holds at the
\* columns named by its insert() the values of its tuple.
C5_ListAllReturnsInserted ==
    (last.op = "list_all" /\ last.status = "ok") =>
        LET ins == inserted[last.t]
            cols == work[last.t].cols
        IN  /\ Len(last.rows) = Len(ins)
            /\ \A i \in 1..Len(ins) : \A j \in 1..Len(ins[i].cols) :
                  last.rows[i][ColIndex(cols, ins[i].cols[j])] = ins[i].vals[j]

\* C6: insert() with no tuples, or with None for them, raises the
\* invalid-argument error with no statement sent, and nothing changes.
C6_InsertNothingRejected ==
    [][(last'.op = "insert" /\ (last'.absent \/ last'.vals = <<>>)) =>
          /\ last'.status = "InvalidArgument"
          /\ last'.nsent = 0
          /\ UNCHANGED <<fileExists, disk, conn, work, inTxn>>]_vars

\* insert() with an empty list has raised on an open connection
C6_EmptyInsertRaised ==
    /\ last.op = "insert" /\ ~last.absent /\ last.vals = <<>>
    /\ last.status = "InvalidArgument"
    /\ conn = "open" /\ work[last.t].exists

\* C7 as stated: select_where() with an empty predicate set fails with the
\* invalid-argument error.
C7_EmptyPairsInvalidArgument ==
    (last.op = "select_where" /\ last.pairs = <<>>) => last.status = "InvalidArgument"

\* C7 amended: select_where() with an empty predicate set hands the
\* statement that ends with WHERE to the connection and fails with the
\* error the store raises on it; it returns no rows and nothing changes.
C7_EmptyPairsStoreError ==
    [][(last'.op = "select_where" /\ last'.pairs = <<>>) =>
          /\ last'.status = "StoreError"
          /\ last'.nsent = 1
          /\ last'.rows = <<>>
          /\ UNCHANGED <<fileExists, disk, conn, work, inTxn>>]_vars

\* select_where() with no pair has raised on a table that holds rows
C7_EmptyPairsRaised ==
    /\ last.op = "select_where" /\ last.pairs = <<>>
    /\ last.status = "StoreError"
    /\ conn = "open" /\ work[last.t].rows # <<>>

\* text cs contains the text s
Contains(cs, s) ==
    \E i \in 1..(Len(cs) - Len(s) + 1) : SubSeq(cs, i, i + Len(s) - 1) = s

\* the comparison  column op value  holds in a row
PairHolds(cols, vals, pair, op) ==
    CmpTruth(op, vals[ColIndex(cols, pair[1])],
             Affinity(cols[ColIndex(cols, pair[1])][2]), pair[2], "none") = "T"

\* the rows of a table for which the comparisons joined by sep hold
Qualifying(tbl, pairs, op, sep) ==
    LET Keep(r) == IF sep = "AND"
                   THEN \A i \in 1..Len(pairs) : PairHolds(tbl.cols, r.vals, pairs[i], op)
                   ELSE \E i \in 1..Len(pairs) : PairHolds(tbl.cols, r.vals, pairs[i], op)
    IN  SelectSeq(tbl.rows, Keep)

\* the rows of a table whose title or author contains the text s
Containing(tbl, s) ==
    LET Has(r, col) == LET v == r.vals[ColIndex(tbl.cols, col)]
                       IN  v.k = "text" /\ Contains(v.s, s)
        Keep(r) == Has(r, "title") \/ Has(r, "author")
    IN  SelectSeq(tbl.rows, Keep)

\* C8: select_where() with pairs returns exactly the rows for which the
\* comparisons joined by the joiner hold, each once, in the order of the
\* table; search_book() returns exactly the rows whose title or author
\* contains the search text.
C8_SelectWhereReturnsMatches ==
    /\ (last.op = "select_where" /\ last.pairs # <<>> /\ last.status = "ok") =>
          LET hits == Qualifying(work[last.t], last.pairs, last.cmp, last.sep)
          IN  last.rows = [i \in 1..Len(hits) |-> hits[i].vals]
    /\ (last.op = "search_book" /\ last.status = "ok") =>
          LET hits == Containing(work["book"], last.vals)
          IN  last.rows = [i \in 1..Len(hits) |-> hits[i].vals]

\* the structure of a statement: its tokens, whatever the literals are
Shape(toks) ==
    [i \in 1..Len(toks) |-> IF toks[i].t = "lit" THEN LitTok(Null) ELSE toks[i]]

\* the tokens of the statement of a call when each value is one literal
LiteralTokens(call) ==
    IF call.op = "insert"
    THEN <<SymTok("INSERT INTO"), SymTok(call.t), SymTok("(")>>
            \o Join([i \in 1..Len(call.cols) |-> <<SymTok(call.cols[i])>>], <<SymTok(", ")>>)
            \o <<SymTok(")"), SymTok("VALUES")>>
            \o Join([i \in 1..Len(call.vals) |->
                        <<SymTok("(")>>
                            \o Join([j \in 1..Len(call.vals[i]) |-> <<LitTok(call.vals[i][j])>>],
                                    <<SymTok(", ")>>)
                            \o <<SymTok(")")>>],
                    <<SymTok(", ")>>)
    ELSE <<SymTok("SELECT * FROM"), SymTok(call.t), SymTok("WHERE")>>
            \o Join([i \in 1..Len(call.pairs) |->
                        <<SymTok(call.pairs[i][1]), SymTok(call.cmp), LitTok(call.pairs[i][2])>>],
                    <<SymTok(call.sep)>>)

\* C9: the statement insert() or select_where() sends is read by the store
\* with one literal in the place of each value, so its structure (kind,
\* table, columns, number of conditions or rows) does not depend on what
\* the text values are.
C9_ValuesAreLiterals ==
    (last.op \in {"insert", "select_where", "search_book"} /\ last.nsent = 1) =>
        Shape(Lex(last.sent)) = Shape(LiteralTokens(last))

\* C10: when a call is back with its caller on an open connection, what
\* the connection sees is what is committed; and a call that sent one
\* statement, which succeeded, has committed exactly what that statement
\* makes of what was committed before.
C10_CommittedOnReturn ==
    [][/\ conn' = "open" => disk' = work'
       /\ (conn = "open" /\ last'.nsent = 1 /\ last'.status = "ok")
             => disk' = Exec(disk, last'.sent).db]_vars

\* an insert() has returned and its rows are committed
C10_InsertCommitted ==
    /\ last.op = "insert" /\ last.status = "ok"
    /\ conn = "open" /\ ~inTxn
    /\ disk[last.t].rows # <<>> /\ disk = work

\* C11: an insert() that raises leaves the store as it was, as the
\* connection sees it and as committed, whatever the number of tuples and
\* whichever of them the store refused; and at every moment, also after
\* later calls have committed, each table holds as many rows as the
\* insert() calls that returned were given.
C11_InsertAllOrNothing ==
    [][/\ (last'.op = "insert" /\ last'.status # "ok")
             => (work' = work /\ disk' = disk)
       /\ \A name \in TableNames :
             /\ Len(work'[name].rows) = Len(inserted'[name])
             /\ Len(disk'[name].rows) = Len(inserted'[name])]_vars

\* an insert() of two tuples has raised on the second one, the first one
\* being acceptable to the empty table
C11_SecondRowRefused ==
    /\ last.op = "insert" /\ last.status = "StoreError" /\ Len(last.vals) = 2
    /\ conn = "open" /\ inTxn
    /\ work[last.t].exists /\ work[last.t].rows = <<>>

====
